---- MODULE Spec2Model ----
(***************************************************************************)
(* Prep-bag reconciliation model of prep-tracking-front: the dish store    *)
(* (context/DishesContext.tsx) and the ingredient reconciliation engine    *)
(* (context/IngredientsContext.tsx, utils/ingredientUtils.ts).             *)
(*                                                                         *)
(* Every context function is one atomic action: React runs an event        *)
(* handler to completion and applies its functional state updaters before  *)
(* the next handler sees the state.                                        *)
(***************************************************************************)
EXTENDS Integers, Sequences, FiniteSets, TLC

VARIABLES
    dishesStack,     \* DishesProvider state: Dish[]
    pendingUpdates,  \* IngredientsProvider state: bagId -> {pending: name -> boolean}
    nextId,          \* the id generator: the next id uuidv4() hands out
    clearTimers      \* setTimeout callbacks scheduled and not yet run

vars == <<dishesStack, pendingUpdates, nextId, clearTimers>>

(***************************************************************************)
(* Bounds of the model.                                                    *)
(***************************************************************************)
MaxDishes == 2      \* dishes held in the store at once
MaxQuantity == 2    \* largest quantity passed to addDish / updateDish
MaxIds == 3         \* ids the generator hands out in one run
MaxPending == 2     \* staged intents held in the pending set at once
MaxBags == 17       \* largest quantity of the one dish of MatrixSpec
MaxStrLen == 3      \* longest generated ingredient name of SimSpec
MaxUiIds == 4       \* ids the generator hands out in one run of UiSpec
MaxTimers == 2      \* clear callbacks scheduled at once

(***************************************************************************)
(* Values.                                                                 *)
(***************************************************************************)
Ing(n, w, u) == [name |-> n, weight |-> w, unit |-> u]

Names == {"Salt", "Pepper"}

DishNames == {"Soup", "Stew"}

\* Ingredient lists of the recipes a dish is created from or updated to.
IngredientLists == { <<>>, <<Ing("Salt", 5, "g")>> }

\* Lists a caller hands to updatePrepBag directly.
AddedLists == { <<Ing("Pepper", 2, "g")>> }

BagIds == 1..MaxIds

\* The empty slot of a display matrix (null).
Null == [id |-> 0]

(***************************************************************************)
(* Sequence helpers (Array.prototype.map / filter / find / some).          *)
(***************************************************************************)
Range(s) == {s[i] : i \in DOMAIN s}

NamesOf(list) == [i \in DOMAIN list |-> list[i].name]

HasName(list, n) == \E i \in DOMAIN list : list[i].name = n

\* Array.prototype.find on i.name === n; the caller checks HasName first.
FindByName(list, n) ==
    list[CHOOSE i \in DOMAIN list :
            /\ list[i].name = n
            /\ \A j \in DOMAIN list : list[j].name = n => i <= j]

(***************************************************************************)
(* Dish store: context/DishesContext.tsx                                   *)
(***************************************************************************)
\* Mutant of createMatrix: the bags are laid out row by row,
\* prepBags[row * totalCols + col].
createMatrix_rowMajor(prepBags, columnHeight) ==
    LET totalCols == (Len(prepBags) + columnHeight - 1) \div columnHeight
    IN  [row \in 1..columnHeight |->
            [col \in 1..totalCols |->
                LET index == (row - 1) * totalCols + (col - 1)
                IN  IF index < Len(prepBags) THEN prepBags[index + 1] ELSE Null]]

\* Mutant of createMatrix: only as many rows as the tallest column needs,
\* Array.from({length: Math.min(prepBags.length, columnHeight)}, ...).
createMatrix_rowsAsNeeded(prepBags, columnHeight) ==
    LET totalCols == (Len(prepBags) + columnHeight - 1) \div columnHeight
        rows == IF Len(prepBags) < columnHeight THEN Len(prepBags) ELSE columnHeight
    IN  [row \in 1..rows |->
            [col \in 1..totalCols |->
                LET index == (col - 1) * columnHeight + (row - 1)
                IN  IF index < Len(prepBags) THEN prepBags[index + 1] ELSE Null]]

createMatrix(prepBags, columnHeight) ==
    LET totalCols == (Len(prepBags) + columnHeight - 1) \div columnHeight
    IN  [row \in 1..columnHeight |->
            [col \in 1..totalCols |->
                LET index == (col - 1) * columnHeight + (row - 1)
                IN  IF index < Len(prepBags) THEN prepBags[index + 1] ELSE Null]]

\* The createMatrix of the advanced-mode screen, applied to a dish's bags
\* at render time: prepBags[col * columnHeight + row] || null.
createMatrixView(prepBags, columnHeight) ==
    LET totalCols == (Len(prepBags) + columnHeight - 1) \div columnHeight
    IN  [row \in 1..columnHeight |->
            [col \in 1..totalCols |->
                LET at == (col - 1) * columnHeight + (row - 1) + 1
                IN  IF at \in DOMAIN prepBags THEN prepBags[at] ELSE Null]]

\* Mutant of freshBags: the id is generated once and shared by all n bags.
freshBags_sameId(lastId, n, dishName, ingredients) ==
    [k \in 1..n |->
        [id |-> lastId + 1,
         dishName |-> dishName,
         ingredients |-> ingredients,
         addedIngredients |-> <<>>,
         isComplete |-> FALSE]]

\* Array.from({length: n}, () => ({id: uuidv4(), ...})): n fresh bags whose
\* ids are the n ids following `lastId`.
freshBags(lastId, n, dishName, ingredients) ==
    [k \in 1..n |->
        [id |-> lastId + k,
         dishName |-> dishName,
         ingredients |-> ingredients,
         addedIngredients |-> <<>>,
         isComplete |-> FALSE]]

\* Mutant of addDishResult: the new dish is put first, [newDish, ...prev].
addDishResult_prepend(prev, id, name, ingredients, quantity) ==
    LET newPrepBags == freshBags(id, quantity, name, ingredients)
        newDish == [id |-> id,
                    name |-> name,
                    quantity |-> quantity,
                    ingredients |-> ingredients,
                    prepBags |-> newPrepBags,
                    matrix |-> createMatrix(newPrepBags, 8)]
    IN  <<newDish>> \o prev

addDishResult(prev, id, name, ingredients, quantity) ==
    LET newPrepBags == freshBags(id, quantity, name, ingredients)
        newDish == [id |-> id,
                    name |-> name,
                    quantity |-> quantity,
                    ingredients |-> ingredients,
                    prepBags |-> newPrepBags,
                    matrix |-> createMatrix(newPrepBags, 8)]
    IN  Append(prev, newDish)

AddDish(name, ingredients, quantity) ==
    /\ Len(dishesStack) < MaxDishes
    /\ nextId + quantity <= MaxIds
    /\ dishesStack' = addDishResult(dishesStack, nextId, name, ingredients, quantity)
    /\ nextId' = nextId + 1 + quantity
    /\ UNCHANGED <<pendingUpdates, clearTimers>>

undoDishResult(prev) == SubSeq(prev, 1, Len(prev) - 1)

UndoDish ==
    /\ dishesStack' = undoDishResult(dishesStack)
    /\ UNCHANGED <<pendingUpdates, nextId, clearTimers>>

ClearDishes ==
    /\ dishesStack' = <<>>
    /\ UNCHANGED <<pendingUpdates, nextId, clearTimers>>

removeDishResult(prev, name) ==
    LET keep(dish) == dish.name # name IN SelectSeq(prev, keep)

RemoveDish(name) ==
    /\ dishesStack' = removeDishResult(dishesStack, name)
    /\ UNCHANGED <<pendingUpdates, nextId, clearTimers>>

\* Bags updateDish generates for one dish: quantity - prepBags.length when
\* the dish is named `name` and the quantity grows, none otherwise.
additionalCount(dish, name, quantity) ==
    IF dish.name = name /\ quantity > Len(dish.prepBags)
        THEN quantity - Len(dish.prepBags)
        ELSE 0

\* Ids uuidv4() handed out while prev.map(...) went over dishes 1..i.
RECURSIVE idsUsedUpTo(_, _, _, _)
idsUsedUpTo(prev, i, name, quantity) ==
    IF i = 0 THEN 0
    ELSE idsUsedUpTo(prev, i - 1, name, quantity)
            + additionalCount(prev[i], name, quantity)

\* Mutant of updateOneDish: the dish's quantity field is not written.
updateOneDish_staleQuantity(dish, lastId, name, quantity, ingredients) ==
    IF dish.name = name
        THEN LET updatedBags ==
                    IF quantity > Len(dish.prepBags)
                        THEN dish.prepBags \o
                             freshBags(lastId, quantity - Len(dish.prepBags),
                                       name, ingredients)
                    ELSE IF quantity < Len(dish.prepBags)
                        THEN SubSeq(dish.prepBags, 1, quantity)
                    ELSE dish.prepBags
             IN  [dish EXCEPT !.ingredients = ingredients,
                              !.prepBags = updatedBags,
                              !.matrix = createMatrix(updatedBags, 8)]
        ELSE dish

\* Mutant of updateOneDish: a smaller quantity keeps the last bags,
\* slice(-quantity), instead of the first.
updateOneDish_dropHead(dish, lastId, name, quantity, ingredients) ==
    IF dish.name = name
        THEN LET updatedBags ==
                    IF quantity > Len(dish.prepBags)
                        THEN dish.prepBags \o
                             freshBags(lastId, quantity - Len(dish.prepBags),
                                       name, ingredients)
                    ELSE IF quantity < Len(dish.prepBags)
                        THEN SubSeq(dish.prepBags,
                                    Len(dish.prepBags) - quantity + 1,
                                    Len(dish.prepBags))
                    ELSE dish.prepBags
             IN  [dish EXCEPT !.ingredients = ingredients,
                              !.prepBags = updatedBags,
                              !.matrix = createMatrix(updatedBags, 8),
                              !.quantity = quantity]
        ELSE dish

\* Mutant of updateOneDish: the name test is left out, every dish is updated.
updateOneDish_anyName(dish, lastId, name, quantity, ingredients) ==
    LET updatedBags ==
            IF quantity > Len(dish.prepBags)
                THEN dish.prepBags \o
                     freshBags(lastId, quantity - Len(dish.prepBags),
                               name, ingredients)
            ELSE IF quantity < Len(dish.prepBags)
                THEN SubSeq(dish.prepBags, 1, quantity)
            ELSE dish.prepBags
    IN  [dish EXCEPT !.ingredients = ingredients,
                     !.prepBags = updatedBags,
                     !.matrix = createMatrix(updatedBags, 8),
                     !.quantity = quantity]

\* The body of updateDish's map callback for one dish; `lastId` is the id
\* the generator handed out last before this dish was visited.
updateOneDish(dish, lastId, name, quantity, ingredients) ==
    IF dish.name = name
        THEN LET updatedBags ==
                    IF quantity > Len(dish.prepBags)
                        THEN dish.prepBags \o
                             freshBags(lastId, quantity - Len(dish.prepBags),
                                       name, ingredients)
                    ELSE IF quantity < Len(dish.prepBags)
                        THEN SubSeq(dish.prepBags, 1, quantity)
                    ELSE dish.prepBags
             IN  [dish EXCEPT !.ingredients = ingredients,
                              !.prepBags = updatedBags,
                              !.matrix = createMatrix(updatedBags, 8),
                              !.quantity = quantity]
        ELSE dish

updateDishResult(prev, firstId, name, quantity, ingredients) ==
    [i \in DOMAIN prev |->
        updateOneDish(prev[i],
                      firstId - 1 + idsUsedUpTo(prev, i - 1, name, quantity),
                      name, quantity, ingredients)]

UpdateDish(name, quantity, ingredients) ==
    LET used == idsUsedUpTo(dishesStack, Len(dishesStack), name, quantity)
    IN  /\ nextId + used - 1 <= MaxIds
        /\ dishesStack' = updateDishResult(dishesStack, nextId, name, quantity, ingredients)
        /\ nextId' = nextId + used
            /\ UNCHANGED <<pendingUpdates, clearTimers>>

\* Mutant of updatePrepBagResult: every bag of the dish that holds the bag
\* is written, not only the bag with the id.
updatePrepBagResult_wholeDish(prev, prepBagId, newAddedIngredients) ==
    [d \in DOMAIN prev |->
        [prev[d] EXCEPT !.prepBags =
            [b \in DOMAIN prev[d].prepBags |->
                LET bag == prev[d].prepBags[b]
                IN  IF \E o \in DOMAIN prev[d].prepBags :
                            prev[d].prepBags[o].id = prepBagId
                        THEN [bag EXCEPT
                                !.addedIngredients = newAddedIngredients,
                                !.isComplete =
                                    (Len(newAddedIngredients) = Len(bag.ingredients))]
                        ELSE bag]]]

\* Mutant of updatePrepBagResult: the new records are appended to the
\* bag's addedIngredients instead of replacing them.
updatePrepBagResult_append(prev, prepBagId, newAddedIngredients) ==
    [d \in DOMAIN prev |->
        [prev[d] EXCEPT !.prepBags =
            [b \in DOMAIN prev[d].prepBags |->
                LET bag == prev[d].prepBags[b]
                    added == bag.addedIngredients \o newAddedIngredients
                IN  IF bag.id = prepBagId
                        THEN [bag EXCEPT
                                !.addedIngredients = added,
                                !.isComplete = (Len(added) = Len(bag.ingredients))]
                        ELSE bag]]]

updatePrepBagResult(prev, prepBagId, newAddedIngredients) ==
    [d \in DOMAIN prev |->
        [prev[d] EXCEPT !.prepBags =
            [b \in DOMAIN prev[d].prepBags |->
                LET bag == prev[d].prepBags[b]
                IN  IF bag.id = prepBagId
                        THEN [bag EXCEPT
                                !.addedIngredients = newAddedIngredients,
                                !.isComplete =
                                    (Len(newAddedIngredients) = Len(bag.ingredients))]
                        ELSE bag]]]

UpdatePrepBag(prepBagId, newAddedIngredients) ==
    /\ dishesStack' = updatePrepBagResult(dishesStack, prepBagId, newAddedIngredients)
    /\ UNCHANGED <<pendingUpdates, nextId, clearTimers>>

\* Mutant of tickOffBag: a bag that already recorded the ingredient gets a
\* second record of it.
tickOffBag_noExistingCheck(bag, ingredientName) ==
    IF HasName(bag.ingredients, ingredientName)
        THEN [bag EXCEPT
                !.addedIngredients =
                    Append(bag.addedIngredients, Ing(ingredientName, 0, "")),
                !.isComplete =
                    (Len(bag.addedIngredients) + 1 = Len(bag.ingredients))]
        ELSE bag

tickOffBag(bag, ingredientName) ==
    IF HasName(bag.ingredients, ingredientName)
       /\ ingredientName \notin Range(NamesOf(bag.addedIngredients))
        THEN [bag EXCEPT
                !.addedIngredients =
                    Append(bag.addedIngredients, Ing(ingredientName, 0, "")),
                !.isComplete =
                    (Len(bag.addedIngredients) + 1 = Len(bag.ingredients))]
        ELSE bag

tickOffIngredientResult(prev, ingredientName) ==
    [d \in DOMAIN prev |->
        [prev[d] EXCEPT !.prepBags =
            [b \in DOMAIN prev[d].prepBags |->
                tickOffBag(prev[d].prepBags[b], ingredientName)]]]

TickOffIngredient(ingredientName) ==
    /\ dishesStack' = tickOffIngredientResult(dishesStack, ingredientName)
    /\ UNCHANGED <<pendingUpdates, nextId, clearTimers>>

\* The orders a drag gesture can hand to reorderDishes: the current dishes,
\* each exactly once.
DragOrders(n) ==
    {p \in [1..n -> 1..n] : \A i, j \in 1..n : p[i] = p[j] => i = j}

ReorderDishes(perm) ==
    /\ dishesStack' = [i \in DOMAIN dishesStack |-> dishesStack[perm[i]]]
    /\ UNCHANGED <<pendingUpdates, nextId, clearTimers>>

(***************************************************************************)
(* Ingredient reconciliation engine: context/IngredientsContext.tsx and    *)
(* utils/ingredientUtils.ts.                                               *)
(*                                                                         *)
(* A JavaScript object or Set keeps its keys in insertion order, so a      *)
(* pending record is a sequence of [ing, toAdd] entries without repeated   *)
(* keys and a Set is a sequence without repeated elements.                 *)
(***************************************************************************)

\* {...obj, [k]: v}: an existing key keeps its place, a new one goes last.
setKey(obj, k, v) ==
    IF \E i \in DOMAIN obj : obj[i].ing = k
        THEN [i \in DOMAIN obj |->
                IF obj[i].ing = k THEN [ing |-> k, toAdd |-> v] ELSE obj[i]]
        ELSE Append(obj, [ing |-> k, toAdd |-> v])

\* Set.prototype.add / delete.
setAdd(set, x) == IF x \in Range(set) THEN set ELSE Append(set, x)

setDelete(set, x) == LET other(y) == y # x IN SelectSeq(set, other)

\* new Set(list)
RECURSIVE newSet(_)
newSet(list) ==
    IF list = <<>> THEN <<>>
    ELSE setAdd(newSet(SubSeq(list, 1, Len(list) - 1)), list[Len(list)])

\* Object.entries(pending).forEach(([ing, toAdd]) => toAdd ? add : delete),
\* over the first n entries.
RECURSIVE applyEntries(_, _, _)
applyEntries(set, pending, n) ==
    IF n = 0 THEN set
    ELSE LET before == applyEntries(set, pending, n - 1)
         IN  IF pending[n].toAdd
                THEN setAdd(before, pending[n].ing)
                ELSE setDelete(before, pending[n].ing)

\* pendingUpdates[bagId]?.pending || {}
pendingOf(updates, bagId) ==
    IF bagId \in DOMAIN updates THEN updates[bagId].pending ELSE <<>>

\* Mutant of updatePendingResult: the bag's earlier intents are not spread
\* into the new pending record.
updatePendingResult_noSpread(prev, bagId, ingredientName, toAdd) ==
    [b \in DOMAIN prev \cup {bagId} |->
        IF b = bagId
            THEN [pending |-> <<[ing |-> ingredientName, toAdd |-> toAdd]>>]
            ELSE prev[b]]

updatePendingResult(prev, bagId, ingredientName, toAdd) ==
    [b \in DOMAIN prev \cup {bagId} |->
        IF b = bagId
            THEN [pending |-> setKey(pendingOf(prev, bagId), ingredientName, toAdd)]
            ELSE prev[b]]

clearPendingResult(prev, bagId) ==
    [b \in DOMAIN prev \ {bagId} |-> prev[b]]

\* Staged intents held in the whole pending set.
RECURSIVE stagedCount(_)
stagedCount(updates) ==
    IF DOMAIN updates = {} THEN 0
    ELSE LET b == CHOOSE x \in DOMAIN updates : TRUE
         IN  Len(updates[b].pending)
                + stagedCount([x \in DOMAIN updates \ {b} |-> updates[x]])

\* Mutant of UpdatePending: a staged add is written to the store at once.
UpdatePending_commits(bagId, ingredientName, toAdd) ==
    /\ dishesStack' =
          IF toAdd
              THEN tickOffIngredientResult(dishesStack, ingredientName)
              ELSE dishesStack
    /\ UNCHANGED <<nextId, clearTimers>>
    /\ pendingUpdates' =
          updatePendingResult(pendingUpdates, bagId, ingredientName, toAdd)
    /\ \/ \E i \in DOMAIN pendingOf(pendingUpdates, bagId) :
             pendingOf(pendingUpdates, bagId)[i].ing = ingredientName
       \/ stagedCount(pendingUpdates) < MaxPending

UpdatePending(bagId, ingredientName, toAdd) ==
    /\ UNCHANGED <<dishesStack, nextId, clearTimers>>
    /\ pendingUpdates' =
          updatePendingResult(pendingUpdates, bagId, ingredientName, toAdd)
    /\ \/ \E i \in DOMAIN pendingOf(pendingUpdates, bagId) :
             pendingOf(pendingUpdates, bagId)[i].ing = ingredientName
       \/ stagedCount(pendingUpdates) < MaxPending

ClearPending(bagId) ==
    /\ UNCHANGED <<dishesStack, nextId, clearTimers>>
    /\ pendingUpdates' = clearPendingResult(pendingUpdates, bagId)

\* ingredients.find(i => i.name === ing) || {name: ing, weight: 0, unit: "unitless"}
resolveIngredient(ingredients, ing) ==
    IF HasName(ingredients, ing)
        THEN FindByName(ingredients, ing)
        ELSE Ing(ing, 0, "unitless")

\* Mutant of newAddedOf: staged removals are not applied.
newAddedOf_ignoreRemovals(updates, bagId, confirmed, ingredients) ==
    LET keep(e) == e.toAdd
        pending == SelectSeq(pendingOf(updates, bagId), keep)
        effective == applyEntries(newSet(confirmed), pending, Len(pending))
    IN  [i \in DOMAIN effective |-> resolveIngredient(ingredients, effective[i])]

\* The list confirmUpdates builds: the effective set, each name resolved.
newAddedOf(updates, bagId, confirmed, ingredients) ==
    LET pending == pendingOf(updates, bagId)
        effective == applyEntries(newSet(confirmed), pending, Len(pending))
    IN  [i \in DOMAIN effective |-> resolveIngredient(ingredients, effective[i])]

\* The calls confirmUpdates makes to its write-back callback, in order.
confirmUpdatesCalls(updates, bagId, confirmed, ingredients) ==
    << [bagId |-> bagId,
        list |-> newAddedOf(updates, bagId, confirmed, ingredients)] >>

\* The store after the write-back calls, the callback being updatePrepBag.
RECURSIVE writeBackAll(_, _)
writeBackAll(prev, calls) ==
    IF calls = <<>> THEN prev
    ELSE writeBackAll(updatePrepBagResult(prev, Head(calls).bagId, Head(calls).list),
                      Tail(calls))

\* The pending set after confirmUpdates: clearPending(bagId).
confirmUpdatesPending(updates, bagId) == clearPendingResult(updates, bagId)

ConfirmUpdates(bagId, confirmed, ingredients) ==
    /\ pendingUpdates' = confirmUpdatesPending(pendingUpdates, bagId)
    /\ dishesStack' =
          writeBackAll(dishesStack,
                       confirmUpdatesCalls(pendingUpdates, bagId, confirmed, ingredients))
    /\ UNCHANGED <<nextId, clearTimers>>

\* Mutant of getEffectiveCount: staged removals are not counted.
getEffectiveCount_addsOnly(updates, bagId, confirmed, total, showMissing) ==
    LET keep(e) == e.toAdd
        pending == SelectSeq(pendingOf(updates, bagId), keep)
        effective == applyEntries(newSet(confirmed), pending, Len(pending))
    IN  IF showMissing THEN total - Len(effective) ELSE Len(effective)

getEffectiveCount(updates, bagId, confirmed, total, showMissing) ==
    LET pending == pendingOf(updates, bagId)
        effective == applyEntries(newSet(confirmed), pending, Len(pending))
    IN  IF showMissing THEN total - Len(effective) ELSE Len(effective)

\* utils/ingredientUtils.ts; `pending` is <<>> for undefined and <<record>>
\* for a pending record.
computeEffectiveCount(confirmed, pending, total, showMissing) ==
    LET effective ==
            IF pending # <<>>
                THEN applyEntries(newSet(confirmed), pending[1], Len(pending[1]))
                ELSE newSet(confirmed)
    IN  IF showMissing THEN total - Len(effective) ELSE Len(effective)

(***************************************************************************)
(* Exhaustion query: app/advanced-mode/index.tsx                           *)
(***************************************************************************)
\* Mutant of isIngredientExhausted: the `required > 0` test is left out.
isIngredientExhausted_noRequiredTest(ingredient, dishes) ==
    LET requiring == {d \in DOMAIN dishes : HasName(dishes[d].ingredients, ingredient)}
        required == Cardinality(
            UNION {{<<d, b>> : b \in DOMAIN dishes[d].prepBags} : d \in requiring})
        confirmed == Cardinality(
            UNION {{<<d, b>> : b \in {x \in DOMAIN dishes[d].prepBags :
                        HasName(dishes[d].prepBags[x].addedIngredients, ingredient)}}
                   : d \in requiring})
    IN  confirmed >= required

isIngredientExhausted(ingredient, dishes) ==
    LET requiring == {d \in DOMAIN dishes : HasName(dishes[d].ingredients, ingredient)}
        required == Cardinality(
            UNION {{<<d, b>> : b \in DOMAIN dishes[d].prepBags} : d \in requiring})
        confirmed == Cardinality(
            UNION {{<<d, b>> : b \in {x \in DOMAIN dishes[d].prepBags :
                        HasName(dishes[d].prepBags[x].addedIngredients, ingredient)}}
                   : d \in requiring})
    IN  required > 0 /\ confirmed >= required

(***************************************************************************)
(* Exhaustion query of the tick-off screen (TabTwoScreen), written as the  *)
(* loop it is: `required` and `confirmed` after the first i dishes.        *)
(***************************************************************************)
RECURSIVE requiredUpTo(_, _, _)
requiredUpTo(dishes, i, ingredient) ==
    IF i = 0 THEN 0
    ELSE requiredUpTo(dishes, i - 1, ingredient)
            + IF HasName(dishes[i].ingredients, ingredient)
                  THEN Len(dishes[i].prepBags)
                  ELSE 0

RECURSIVE confirmedUpTo(_, _, _)
confirmedUpTo(dishes, i, ingredient) ==
    IF i = 0 THEN 0
    ELSE confirmedUpTo(dishes, i - 1, ingredient)
            + IF HasName(dishes[i].ingredients, ingredient)
                  THEN LET has(bag) == HasName(bag.addedIngredients, ingredient)
                       IN  Len(SelectSeq(dishes[i].prepBags, has))
                  ELSE 0

isIngredientExhaustedTabTwo(ingredient, dishes) ==
    /\ requiredUpTo(dishes, Len(dishes), ingredient) > 0
    /\ confirmedUpTo(dishes, Len(dishes), ingredient)
          >= requiredUpTo(dishes, Len(dishes), ingredient)

(***************************************************************************)
(* Similarity matcher and remaining-weight aggregation of the tick-off     *)
(* screen (TabTwoScreen).  A string is the sequence of its characters; an  *)
(* accumulator object is the sequence of its [key, totalWeight, unit]      *)
(* entries in insertion order.                                             *)
(***************************************************************************)
UpperLetters ==
    <<"A", "B", "C", "D", "E", "F", "G", "H", "I", "J", "K", "L", "M",
      "N", "O", "P", "Q", "R", "S", "T", "U", "V", "W", "X", "Y", "Z">>

LowerLetters ==
    <<"a", "b", "c", "d", "e", "f", "g", "h", "i", "j", "k", "l", "m",
      "n", "o", "p", "q", "r", "s", "t", "u", "v", "w", "x", "y", "z">>

\* String.prototype.toLowerCase
toLowerCase(str) ==
    [i \in DOMAIN str |->
        IF \E k \in DOMAIN UpperLetters : UpperLetters[k] = str[i]
            THEN LowerLetters[CHOOSE k \in DOMAIN UpperLetters : UpperLetters[k] = str[i]]
            ELSE str[i]]

\* Math.min of three numbers.
Min3(x, y, z) ==
    IF x <= y /\ x <= z THEN x ELSE IF y <= z THEN y ELSE z

\* The inner loop of levenshteinDistance for row i: `cur` holds the cells
\* dp[i][0..j-1] computed so far, `prevRow` is dp[i-1]; a row is the
\* sequence of its cells, cell j at index j + 1.
RECURSIVE levInnerLoop(_, _, _, _, _)
levInnerLoop(a, b, prevRow, i, cur) ==
    IF Len(cur) > Len(b) THEN cur
    ELSE LET j == Len(cur)
             cost == IF a[i] = b[j] THEN 0 ELSE 1
         IN  levInnerLoop(a, b, prevRow, i,
                          Append(cur, Min3(prevRow[j + 1] + 1,
                                           cur[j] + 1,
                                           prevRow[j] + cost)))

\* The outer loop from row i on, `prevRow` being dp[i-1]: the last row.
RECURSIVE levOuterLoop(_, _, _, _)
levOuterLoop(a, b, prevRow, i) ==
    IF i > Len(a) THEN prevRow
    ELSE levOuterLoop(a, b, levInnerLoop(a, b, prevRow, i, <<i>>), i + 1)

levenshteinDistance(a, b) ==
    levOuterLoop(a, b, [j \in 1..(Len(b) + 1) |-> j - 1], 1)[Len(b) + 1]

\* Mutant of similarity: the strings are compared without toLowerCase().
similarity_caseSensitive(str1, str2) ==
    IF str1 = <<>> /\ str2 = <<>> THEN [num |-> 1, den |-> 1]
    ELSE IF str1 = <<>> \/ str2 = <<>> THEN [num |-> 0, den |-> 1]
    ELSE LET dist == levenshteinDistance(str1, str2)
             maxLen == IF Len(str1) > Len(str2) THEN Len(str1) ELSE Len(str2)
         IN  [num |-> maxLen - dist, den |-> maxLen]

\* similarity(str1, str2): the score 1 - dist / maxLen as the fraction
\* (maxLen - dist) / maxLen, 1 as 1/1 and 0 as 0/1.
similarity(str1, str2) ==
    IF str1 = <<>> /\ str2 = <<>> THEN [num |-> 1, den |-> 1]
    ELSE IF str1 = <<>> \/ str2 = <<>> THEN [num |-> 0, den |-> 1]
    ELSE LET dist == levenshteinDistance(toLowerCase(str1), toLowerCase(str2))
             maxLen == IF Len(str1) > Len(str2) THEN Len(str1) ELSE Len(str2)
         IN  [num |-> maxLen - dist, den |-> maxLen]

\* similarity(str1, str2) >= threshold, the threshold being num/den: the
\* score is 1 - dist/maxLen, so the test is den*(maxLen - dist) >= num*maxLen.
similarityAtLeast(str1, str2, num, den) ==
    IF str1 = <<>> /\ str2 = <<>> THEN den >= num
    ELSE IF str1 = <<>> \/ str2 = <<>> THEN 0 >= num
    ELSE LET dist == levenshteinDistance(toLowerCase(str1), toLowerCase(str2))
             maxLen == IF Len(str1) > Len(str2) THEN Len(str1) ELSE Len(str2)
         IN  den * (maxLen - dist) >= num * maxLen

\* findSimilarIngredientKey(acc, name, 0.8): the index of the key it
\* returns, 0 for null.
findSimilarIngredientKey(acc, ingredientName) ==
    IF \E i \in DOMAIN acc : similarityAtLeast(acc[i].key, ingredientName, 8, 10)
        THEN CHOOSE i \in DOMAIN acc :
                /\ similarityAtLeast(acc[i].key, ingredientName, 8, 10)
                /\ \A j \in 1..(i - 1) :
                      ~similarityAtLeast(acc[j].key, ingredientName, 8, 10)
        ELSE 0

\* acc[name] = {totalWeight, unit}: an existing key keeps its place.
setBucket(acc, name, totalWeight, unit) ==
    LET entry == [key |-> name, totalWeight |-> totalWeight, unit |-> unit]
    IN  IF \E i \in DOMAIN acc : acc[i].key = name
            THEN [i \in DOMAIN acc |-> IF acc[i].key = name THEN entry ELSE acc[i]]
            ELSE Append(acc, entry)

\* dish.prepBags.filter(bag => !bag.isComplete).length
remainingCount(dish) ==
    LET open(bag) == ~bag.isComplete IN Len(SelectSeq(dish.prepBags, open))

\* Mutant of addIngredient: a similar bucket is replaced, not added to.
addIngredient_overwrite(acc, ingredient, count) ==
    LET weightNeeded == ingredient.weight * count
        similarKey == findSimilarIngredientKey(acc, ingredient.name)
    IN  IF similarKey # 0 /\ acc[similarKey].key # <<>>
            THEN [acc EXCEPT ![similarKey].totalWeight = weightNeeded]
            ELSE setBucket(acc, ingredient.name, weightNeeded, ingredient.unit)

\* The body of the forEach over dish.ingredients; `if (similarKey)` is false
\* for null and for the empty string.
addIngredient(acc, ingredient, count) ==
    LET weightNeeded == ingredient.weight * count
        similarKey == findSimilarIngredientKey(acc, ingredient.name)
    IN  IF similarKey # 0 /\ acc[similarKey].key # <<>>
            THEN [acc EXCEPT ![similarKey].totalWeight = @ + weightNeeded]
            ELSE setBucket(acc, ingredient.name, weightNeeded, ingredient.unit)

\* The accumulator after the first n ingredients of a dish.
RECURSIVE aggregateDish(_, _, _)
aggregateDish(acc, dish, n) ==
    IF n = 0 THEN acc
    ELSE addIngredient(aggregateDish(acc, dish, n - 1),
                       dish.ingredients[n], remainingCount(dish))

\* The accumulator after the first i dishes.
RECURSIVE aggregateUpTo(_, _)
aggregateUpTo(dishes, upTo) ==
    IF upTo = 0 THEN <<>>
    ELSE aggregateDish(aggregateUpTo(dishes, upTo - 1), dishes[upTo],
                       Len(dishes[upTo].ingredients))

aggregatedIngredientsRemaining(dishes) == aggregateUpTo(dishes, Len(dishes))

(***************************************************************************)
(* Bag grouping of the ingredient screen (groupedPrepBags).  The key       *)
(* names.join(',') is the sequence of the names: no name of the model      *)
(* holds a comma or is empty, so two keys are equal exactly when the       *)
(* sequences are.  A bag number's toString() is the number.                *)
(***************************************************************************)

\* The names of the model in the order localeCompare puts them.
NameOrder == <<"Pepper", "Salt">>

\* a.localeCompare(b): negative, zero or positive.
localeCompare(a, b) ==
    (CHOOSE i \in DOMAIN NameOrder : NameOrder[i] = a)
        - (CHOOSE i \in DOMAIN NameOrder : NameOrder[i] = b)

\* [...list].sort((a, b) => a.name.localeCompare(b.name)): the sort is
\* stable, so a record goes after the records that do not compare greater.
RECURSIVE sortByName(_)
sortByName(list) ==
    IF list = <<>> THEN <<>>
    ELSE LET init == sortByName(SubSeq(list, 1, Len(list) - 1))
             x == list[Len(list)]
             notGreater(y) == localeCompare(y.name, x.name) <= 0
             greater(y) == localeCompare(y.name, x.name) > 0
         IN  SelectSeq(init, notGreater) \o <<x>> \o SelectSeq(init, greater)

\* dish.prepBags.findIndex(pb => pb.id === prepBagId) + 1, or 0
getPrepBagNumber(dish, prepBagId) ==
    IF \E b \in DOMAIN dish.prepBags : dish.prepBags[b].id = prepBagId
        THEN CHOOSE b \in DOMAIN dish.prepBags :
                /\ dish.prepBags[b].id = prepBagId
                /\ \A o \in 1..(b - 1) : dish.prepBags[o].id # prepBagId
        ELSE 0

\* The body of the forEach over a dish's bags, on the dish's group list.
groupBag(groups, prepBagNumber, addedIngredients) ==
    LET ingredientsKey == NamesOf(sortByName(addedIngredients))
        matching == {g \in DOMAIN groups : groups[g].ingredients = ingredientsKey}
    IN  IF matching # {}
            THEN LET existingGroup == CHOOSE g \in matching :
                                          \A o \in matching : g <= o
                 IN  [groups EXCEPT ![existingGroup].bags = Append(@, prepBagNumber)]
            ELSE Append(groups,
                        [bags |-> <<prepBagNumber>>,
                         ingredients |-> IF ingredientsKey = <<>>
                                             THEN <<"** EMPTY **">>
                                             ELSE ingredientsKey])

\* groupMap[dish.name] after the first n bags of the dish.
RECURSIVE groupDishBags(_, _, _)
groupDishBags(groups, dish, n) ==
    IF n = 0 THEN groups
    ELSE LET before == groupDishBags(groups, dish, n - 1)
         IN  groupBag(before,
                      getPrepBagNumber(dish, dish.prepBags[n].id),
                      dish.prepBags[n].addedIngredients)

\* groupMap after the first `upTo` dishes, as its entries in insertion
\* order; a dish without bags makes no entry.
RECURSIVE groupMapUpTo(_, _)
groupMapUpTo(dishes, upTo) ==
    IF upTo = 0 THEN <<>>
    ELSE LET map == groupMapUpTo(dishes, upTo - 1)
             dish == dishes[upTo]
             at == {e \in DOMAIN map : map[e].dishName = dish.name}
         IN  IF dish.prepBags = <<>> THEN map
             ELSE IF at = {}
                 THEN Append(map,
                             [dishName |-> dish.name,
                              prepBags |-> groupDishBags(<<>>, dish, Len(dish.prepBags))])
             ELSE LET e == CHOOSE x \in at : TRUE
                  IN  [map EXCEPT ![e].prepBags =
                          groupDishBags(@, dish, Len(dish.prepBags))]

groupedPrepBags(dishes) == groupMapUpTo(dishes, Len(dishes))

(***************************************************************************)
(* Advanced-mode screen (app/advanced-mode/index.tsx): bag presses stage   *)
(* intents, the confirm button commits them.  selectedIngredients is set   *)
(* freely by toggleIngredient between presses, so a press takes the        *)
(* selection as its input; showMissing is never set and stays false.       *)
(***************************************************************************)
showMissingState == FALSE

\* The body of selectedIngredients.forEach for the first n selected names.
RECURSIVE pressEntries(_, _, _, _, _)
pressEntries(updates, dish, bag, selectedIngredients, n) ==
    IF n = 0 THEN updates
    ELSE LET before == pressEntries(updates, dish, bag, selectedIngredients, n - 1)
             ing == selectedIngredients[n]
             confirmed == HasName(bag.addedIngredients, ing)
         IN  IF ~HasName(dish.ingredients, ing)
                 THEN before
                 ELSE updatePendingResult(before, bag.id, ing, ~confirmed)

\* The pending set after onBagPress(dishId, bagId) with a non-empty selection.
onBagPressResult(updates, dishes, dishId, bagId, selectedIngredients) ==
    IF \E d \in DOMAIN dishes :
          /\ dishes[d].id = dishId
          /\ \A e \in 1..(d - 1) : dishes[e].id # dishId
          /\ \E b \in DOMAIN dishes[d].prepBags : dishes[d].prepBags[b].id = bagId
        THEN LET d == CHOOSE x \in DOMAIN dishes :
                        /\ dishes[x].id = dishId
                        /\ \A e \in 1..(x - 1) : dishes[e].id # dishId
                 b == CHOOSE x \in DOMAIN dishes[d].prepBags :
                        /\ dishes[d].prepBags[x].id = bagId
                        /\ \A o \in 1..(x - 1) : dishes[d].prepBags[o].id # bagId
             IN  pressEntries(updates, dishes[d], dishes[d].prepBags[b],
                              selectedIngredients, Len(selectedIngredients))
        ELSE updates

\* A press comes from a rendered cell: the bag bagId of the dish dishId.
OnBagPress(dishId, bagId, selectedIngredients) ==
    /\ \E d \in DOMAIN dishesStack :
          /\ dishesStack[d].id = dishId
          /\ \E b \in DOMAIN dishesStack[d].prepBags :
                dishesStack[d].prepBags[b].id = bagId
    /\ selectedIngredients # <<>>
    /\ UNCHANGED <<dishesStack, nextId, clearTimers>>
    /\ pendingUpdates' =
          onBagPressResult(pendingUpdates, dishesStack, dishId, bagId, selectedIngredients)
    /\ stagedCount(pendingUpdates') <= MaxPending

\* The bags dishesStack.forEach / dish.prepBags.forEach visits, in order.
RECURSIVE bagsInOrder(_, _)
bagsInOrder(dishes, upTo) ==
    IF upTo = 0 THEN <<>>
    ELSE bagsInOrder(dishes, upTo - 1) \o dishes[upTo].prepBags

\* effectiveCount !== bag.addedIngredients.length
needsConfirm(updates, bag) ==
    getEffectiveCount(updates, bag.id, NamesOf(bag.addedIngredients),
                      Len(bag.ingredients), showMissingState)
        # Len(bag.addedIngredients)

\* The store after confirmAllUpdates handled the first n visited bags; every
\* confirmUpdates call reads the pending set the handler was rendered with.
RECURSIVE confirmAllStore(_, _, _, _)
confirmAllStore(store, updates, bags, n) ==
    IF n = 0 THEN store
    ELSE LET before == confirmAllStore(store, updates, bags, n - 1)
             bag == bags[n]
         IN  IF needsConfirm(updates, bag)
                 THEN writeBackAll(before,
                         confirmUpdatesCalls(updates, bag.id,
                                             NamesOf(bag.addedIngredients),
                                             bag.ingredients))
                 ELSE before

\* The pending set after confirmAllUpdates handled the first n visited bags.
RECURSIVE confirmAllPending(_, _, _, _)
confirmAllPending(pending, updates, bags, n) ==
    IF n = 0 THEN pending
    ELSE LET before == confirmAllPending(pending, updates, bags, n - 1)
         IN  IF needsConfirm(updates, bags[n])
                 THEN confirmUpdatesPending(before, bags[n].id)
                 ELSE before

ConfirmAllUpdates ==
    LET bags == bagsInOrder(dishesStack, Len(dishesStack))
    IN  /\ dishesStack' = confirmAllStore(dishesStack, pendingUpdates, bags, Len(bags))
        /\ pendingUpdates' = confirmAllPending(pendingUpdates, pendingUpdates, bags, Len(bags))
        /\ UNCHANGED <<nextId, clearTimers>>

(***************************************************************************)
(* Screens that add and edit dishes: app/(tabs)/index.tsx (handleAddDish)  *)
(* and app/(tabs)/two.tsx (handleSaveEdit, handleRemove,                   *)
(* handleConfirmTickOff).  A quantity is typed as text: a sequence of      *)
(* digit characters.                                                       *)
(***************************************************************************)
Digits == <<"0", "1", "2", "3", "4", "5", "6", "7", "8", "9">>

digitValue(c) == (CHOOSE i \in DOMAIN Digits : Digits[i] = c) - 1

\* parseInt(text, 10) of a text of digits: NaN for the empty text.
RECURSIVE parseDigits(_, _)
parseDigits(text, n) ==
    IF n = 0 THEN 0 ELSE 10 * parseDigits(text, n - 1) + digitValue(text[n])

parseInt(text) ==
    IF text = <<>>
        THEN [isNaN |-> TRUE, value |-> 0]
        ELSE [isNaN |-> FALSE, value |-> parseDigits(text, Len(text))]

\* parseInt(prepAmount, 10) || 0
handleAddDishQuantity(prepAmount) ==
    LET parsed == parseInt(prepAmount)
    IN  IF parsed.isNaN \/ parsed.value = 0 THEN 0 ELSE parsed.value

HandleAddDish(selectedRecipe, prepAmount) ==
    LET q == handleAddDishQuantity(prepAmount)
    IN  /\ Len(dishesStack) < MaxDishes
        /\ nextId + q <= MaxUiIds
        /\ dishesStack' = addDishResult(dishesStack, nextId, selectedRecipe.name,
                                        selectedRecipe.ingredients, q)
        /\ nextId' = nextId + 1 + q
        /\ UNCHANGED <<pendingUpdates, clearTimers>>

\* dishesStack.find(d => d.name === name): its index, 0 when there is none.
findDishByName(dishes, name) ==
    IF \E d \in DOMAIN dishes : dishes[d].name = name
        THEN CHOOSE d \in DOMAIN dishes :
                /\ dishes[d].name = name
                /\ \A e \in 1..(d - 1) : dishes[e].name # name
        ELSE 0

\* handleSaveEdit for the dish being edited; a rejected quantity only
\* raises the alert.
HandleSaveEdit(editingDishName, sheetQuantity) ==
    LET qty == parseInt(sheetQuantity)
        d == findDishByName(dishesStack, editingDishName)
    IN  IF qty.isNaN \/ qty.value <= 0 \/ d = 0
            THEN UNCHANGED vars
            ELSE LET ingredients == dishesStack[d].ingredients
                     used == idsUsedUpTo(dishesStack, Len(dishesStack),
                                         editingDishName, qty.value)
                 IN  /\ nextId + used - 1 <= MaxUiIds
                     /\ dishesStack' = updateDishResult(dishesStack, nextId,
                                            editingDishName, qty.value, ingredients)
                     /\ nextId' = nextId + used
                     /\ UNCHANGED <<pendingUpdates, clearTimers>>

\* dish.ingredients.filter(ingredient => !ticked.includes(ingredient.name))
withoutTicked(ingredients, ticked) ==
    LET keep(ingredient) == ingredient.name \notin ticked
    IN  SelectSeq(ingredients, keep)

\* One dish of a tick-off: removeDish when nothing remains of the rendered
\* dish's ingredients, updateDish with what remains otherwise.  `st` holds
\* the store and the next free id.
tickOffDish(st, dish, ticked) ==
    LET updatedIngredients == withoutTicked(dish.ingredients, ticked)
    IN  IF updatedIngredients = <<>>
            THEN [store |-> removeDishResult(st.store, dish.name), next |-> st.next]
            ELSE [store |-> updateDishResult(st.store, st.next, dish.name,
                                             dish.quantity, updatedIngredients),
                  next |-> st.next + idsUsedUpTo(st.store, Len(st.store),
                                                 dish.name, dish.quantity)]

\* tickOffMode 'all': dishesStack.forEach over the rendered dishes 1..n.
RECURSIVE tickOffAll(_, _, _, _)
tickOffAll(st, rendered, ticked, n) ==
    IF n = 0 THEN st
    ELSE tickOffDish(tickOffAll(st, rendered, ticked, n - 1), rendered[n], ticked)

\* tickOffMode 'dish': Object.entries(tickedByDish).forEach over entries 1..n.
RECURSIVE tickOffByDish(_, _, _, _)
tickOffByDish(st, rendered, tickedByDish, n) ==
    IF n = 0 THEN st
    ELSE LET before == tickOffByDish(st, rendered, tickedByDish, n - 1)
             entry == tickedByDish[n]
             d == findDishByName(rendered, entry.dishName)
         IN  IF entry.ingredients # {} /\ d # 0
                 THEN tickOffDish(before, rendered[d], entry.ingredients)
                 ELSE before

HandleConfirmTickOff(tickOffMode, ticked) ==
    LET st == [store |-> dishesStack, next |-> nextId]
        tickedByDish == <<[dishName |-> "Soup", ingredients |-> ticked]>>
        result == IF tickOffMode = "all"
                     THEN tickOffAll(st, dishesStack, ticked, Len(dishesStack))
                     ELSE tickOffByDish(st, dishesStack, tickedByDish, Len(tickedByDish))
    IN  /\ result.next - 1 <= MaxUiIds
        /\ dishesStack' = result.store
        /\ nextId' = result.next
        /\ UNCHANGED <<pendingUpdates, clearTimers>>

(***************************************************************************)
(* The advanced-mode screen variant that keeps the pending set in its own  *)
(* state and clears it with setTimeout(..., 100) after confirming.  The    *)
(* callback runs as a later task, so presses and confirms can come between *)
(* the confirm that scheduled it and its run.                              *)
(***************************************************************************)

\* newUpdate spread over the bag's pending record, for the first n selected
\* names: {...prev[bagId], ...newUpdate}.
RECURSIVE spreadNewUpdate(_, _, _, _, _)
spreadNewUpdate(pending, dish, bag, selectedIngredients, n) ==
    IF n = 0 THEN pending
    ELSE LET before == spreadNewUpdate(pending, dish, bag, selectedIngredients, n - 1)
             ing == selectedIngredients[n]
             confirmed == HasName(bag.addedIngredients, ing)
         IN  IF ~HasName(dish.ingredients, ing)
                 THEN before
                 ELSE setKey(before, ing, ~confirmed)

\* onBagPress of the variant for the bag b of the dish d.
TimerBagPress(d, b, selectedIngredients) ==
    /\ d \in DOMAIN dishesStack
    /\ b \in DOMAIN dishesStack[d].prepBags
    /\ LET dish == dishesStack[d]
           bag == dish.prepBags[b]
           record == spreadNewUpdate(pendingOf(pendingUpdates, bag.id), dish, bag,
                                     selectedIngredients, Len(selectedIngredients))
       IN  pendingUpdates' =
              [id \in DOMAIN pendingUpdates \cup {bag.id} |->
                  IF id = bag.id THEN [pending |-> record] ELSE pendingUpdates[id]]
    /\ stagedCount(pendingUpdates') <= MaxPending
    /\ UNCHANGED <<dishesStack, nextId, clearTimers>>

\* The updatePrepBag calls of the variant's confirmUpdates: one for every
\* pending record whose bag is in the store.
RECURSIVE timerConfirmStore(_, _, _, _)
timerConfirmStore(store, updates, bags, n) ==
    IF n = 0 THEN store
    ELSE LET before == timerConfirmStore(store, updates, bags, n - 1)
             bag == bags[n]
         IN  IF bag.id \in DOMAIN updates
                 THEN updatePrepBagResult(before, bag.id,
                         newAddedOf(updates, bag.id, NamesOf(bag.addedIngredients),
                                    bag.ingredients))
                 ELSE before

\* confirmUpdates of the variant: the write-backs, then setTimeout.
TimerConfirm ==
    LET bags == bagsInOrder(dishesStack, Len(dishesStack))
    IN  /\ clearTimers < MaxTimers
        /\ dishesStack' = timerConfirmStore(dishesStack, pendingUpdates, bags, Len(bags))
        /\ clearTimers' = clearTimers + 1
        /\ UNCHANGED <<pendingUpdates, nextId>>

\* The timer callback: setPendingUpdates({}).
DelayedClear ==
    /\ clearTimers > 0
    /\ pendingUpdates' = <<>>
    /\ clearTimers' = clearTimers - 1
    /\ UNCHANGED <<dishesStack, nextId>>

(***************************************************************************)
(* Specifications.                                                         *)
(***************************************************************************)
Init ==
    /\ dishesStack = <<>>
    /\ pendingUpdates = <<>>
    /\ clearTimers = 0
    /\ nextId = 1

Next ==
    \/ \E name \in DishNames, ings \in IngredientLists, q \in 0..MaxQuantity :
          AddDish(name, ings, q)
    \/ UndoDish
    \/ ClearDishes
    \/ \E name \in DishNames : RemoveDish(name)
    \/ \E name \in DishNames, ings \in IngredientLists, q \in 0..MaxQuantity :
          UpdateDish(name, q, ings)
    \/ \E id \in BagIds, list \in AddedLists : UpdatePrepBag(id, list)
    \/ \E n \in Names : TickOffIngredient(n)
    \/ \E perm \in DragOrders(Len(dishesStack)) : ReorderDishes(perm)

Spec == Init /\ [][Next]_vars

\* The reconciliation engine over a store holding one dish of two bags (ids
\* 2 and 3); id 4 belongs to no bag.
EngineIngredients == <<Ing("Salt", 5, "g"), Ing("Pepper", 2, "g")>>

EngineBagIds == 2..4

\* Confirmed-name lists and recipes a caller hands to confirmUpdates.
ConfirmedLists == { <<>>, <<"Salt">>, <<"Pepper", "Salt">>, <<"Salt", "Salt">> }

RecipeLists == { EngineIngredients, <<Ing("Pepper", 3, "kg"), Ing("Pepper", 2, "g")>> }

EngineInit ==
    /\ dishesStack = addDishResult(<<>>, 1, "Soup", EngineIngredients, 2)
    /\ pendingUpdates = <<>>
    /\ clearTimers = 0
    /\ nextId = 4

EngineNext ==
    \/ \E b \in EngineBagIds, n \in Names, toAdd \in BOOLEAN :
          UpdatePending(b, n, toAdd)
    \/ \E b \in EngineBagIds : ClearPending(b)
    \/ \E b \in EngineBagIds, c \in ConfirmedLists, ings \in RecipeLists :
          ConfirmUpdates(b, c, ings)

EngineSpec == EngineInit /\ [][EngineNext]_vars

\* The store holding one dish of up to MaxBags bags, so that its display
\* matrix has up to three columns.  The dish is added once and its quantity
\* only lowered afterwards (growth of a dish is part of Spec).
AddDishOfMany(ingredients, quantity) ==
    /\ dishesStack = <<>>
    /\ nextId = 1
    /\ dishesStack' = addDishResult(dishesStack, nextId, "Soup", ingredients, quantity)
    /\ nextId' = nextId + 1 + quantity
    /\ UNCHANGED <<pendingUpdates, clearTimers>>

UpdateDishOfMany(quantity, ingredients) ==
    /\ idsUsedUpTo(dishesStack, Len(dishesStack), "Soup", quantity) = 0
    /\ dishesStack' = updateDishResult(dishesStack, nextId, "Soup", quantity, ingredients)
    /\ UNCHANGED <<pendingUpdates, nextId, clearTimers>>

MatrixInit ==
    /\ dishesStack = <<>>
    /\ pendingUpdates = <<>>
    /\ clearTimers = 0
    /\ nextId = 1

MatrixNext ==
    \/ \E ings \in IngredientLists, q \in 0..MaxBags : AddDishOfMany(ings, q)
    \/ \E ings \in IngredientLists, q \in 0..MaxBags : UpdateDishOfMany(q, ings)
    \/ \E n \in Names : TickOffIngredient(n)

MatrixSpec == MatrixInit /\ [][MatrixNext]_vars

\* The store as the tick-off screen aggregates it: dishes whose ingredient
\* names are near-duplicates of each other, and one recipe with an
\* ingredient whose name is the empty string.
Tomato == <<"T", "o", "m", "a", "t", "o">>

TomatosLower == <<"t", "o", "m", "a", "t", "o", "s">>

Tomatoes == <<"T", "o", "m", "a", "t", "o", "e", "s">>

AggNames == {Tomato, TomatosLower, Tomatoes, <<>>}

AggIngredientLists ==
    { <<Ing(Tomato, 3, "g")>>,
      <<Ing(Tomatoes, 4, "g"), Ing(TomatosLower, 5, "g")>>,
      <<Ing(<<>>, 1, "g")>> }

AggAddDish(ingredients, quantity) ==
    /\ Len(dishesStack) < MaxDishes
    /\ dishesStack' = addDishResult(dishesStack, nextId, "Soup", ingredients, quantity)
    /\ nextId' = nextId + 1 + quantity
    /\ UNCHANGED <<pendingUpdates, clearTimers>>

AggInit ==
    /\ dishesStack = <<>>
    /\ pendingUpdates = <<>>
    /\ clearTimers = 0
    /\ nextId = 1

AggNext ==
    \/ \E ings \in AggIngredientLists, q \in 0..MaxQuantity : AggAddDish(ings, q)
    \/ \E n \in AggNames : TickOffIngredient(n)

AggSpec == AggInit /\ [][AggNext]_vars

\* The similarity matcher over pairs of ingredient names: two dishes of one
\* ingredient each, the names being all strings of up to MaxStrLen
\* characters over a three-letter alphabet, and three kitchen names.
Flour == <<"F", "l", "o", "u", "r">>

FlourLower == <<"f", "l", "o", "u", "r">>

Sugar == <<"S", "u", "g", "a", "r">>

SimAlphabet == {"F", "f", "l"}

SimStrings ==
    UNION {[1..n -> SimAlphabet] : n \in 0..MaxStrLen} \cup {Flour, FlourLower, Sugar}

SimAddFirst(ingredientName) ==
    /\ dishesStack = <<>>
    /\ dishesStack' = addDishResult(dishesStack, nextId, "Soup",
                                    <<Ing(ingredientName, 1, "g")>>, 0)
    /\ nextId' = nextId + 1
    /\ UNCHANGED <<pendingUpdates, clearTimers>>

SimAddSecond(ingredientName) ==
    /\ Len(dishesStack) = 1
    /\ dishesStack' = addDishResult(dishesStack, nextId, "Stew",
                                    <<Ing(ingredientName, 1, "g")>>, 0)
    /\ nextId' = nextId + 1
    /\ UNCHANGED <<pendingUpdates, clearTimers>>

SimInit ==
    /\ dishesStack = <<>>
    /\ pendingUpdates = <<>>
    /\ clearTimers = 0
    /\ nextId = 1

SimNext ==
    \/ \E n \in SimStrings : SimAddFirst(n)
    \/ \E n \in SimStrings : SimAddSecond(n)

SimSpec == SimInit /\ [][SimNext]_vars

\* The dish screens: dishes are added from the recipe list, edited, removed,
\* ticked off and dragged into a new order.
SoupRecipe == [name |-> "Soup",
               ingredients |-> <<Ing("Salt", 5, "g"), Ing("Pepper", 2, "g")>>]

UiRecipes == {SoupRecipe}

\* Texts the quantity fields can hold: nothing, or one digit.
QuantityTexts == {<<>>} \cup {<<Digits[q + 1]>> : q \in 0..MaxQuantity}

\* Non-empty choices of the tick-off sheet.
TickedChoices == (SUBSET Names) \ {{}}

UiInit ==
    /\ dishesStack = <<>>
    /\ pendingUpdates = <<>>
    /\ clearTimers = 0
    /\ nextId = 1

UiNext ==
    \/ \E recipe \in UiRecipes, text \in QuantityTexts : HandleAddDish(recipe, text)
    \/ UndoDish
    \/ \E name \in DishNames, text \in QuantityTexts : HandleSaveEdit(name, text)
    \/ \E name \in DishNames : RemoveDish(name)
    \/ \E mode \in {"all", "dish"}, ticked \in TickedChoices :
          HandleConfirmTickOff(mode, ticked)
    \/ \E perm \in DragOrders(Len(dishesStack)) : ReorderDishes(perm)

UiSpec == UiInit /\ [][UiNext]_vars

\* The advanced-mode screen opened on a store the dish screens produced.
\* freshStore: Soup added with quantity 2.
freshStore == addDishResult(<<>>, 1, SoupRecipe.name, SoupRecipe.ingredients,
                            handleAddDishQuantity(<<"2">>))

\* editedStore: Soup added with an empty quantity field, Pepper ticked off,
\* the quantity edited to 1, Soup added again with an empty quantity field
\* and dragged to the front, the quantity edited to 1 again.
editedStore ==
    LET added == addDishResult(<<>>, 1, SoupRecipe.name, SoupRecipe.ingredients,
                               handleAddDishQuantity(<<>>))
        ticked == tickOffAll([store |-> added, next |-> 2], added, {"Pepper"},
                             Len(added))
        edited == updateDishResult(ticked.store, ticked.next, "Soup",
                     parseInt(<<"1">>).value,
                     ticked.store[findDishByName(ticked.store, "Soup")].ingredients)
        addedAgain == addDishResult(edited, 3, SoupRecipe.name, SoupRecipe.ingredients,
                                    handleAddDishQuantity(<<>>))
        dragged == <<addedAgain[2], addedAgain[1]>>
    IN  updateDishResult(dragged, 4, "Soup", parseInt(<<"1">>).value,
                         dragged[findDishByName(dragged, "Soup")].ingredients)

AdvancedStores == {[store |-> freshStore, next |-> 4],
                   [store |-> editedStore, next |-> 5]}

\* Selections of the ingredient selector, in the order they were toggled on.
Selections == {<<"Salt">>, <<"Pepper">>, <<"Salt", "Pepper">>}

UiIds == 1..MaxUiIds

AdvancedInit ==
    /\ \E st \in AdvancedStores :
          /\ dishesStack = st.store
          /\ nextId = st.next
    /\ pendingUpdates = <<>>
    /\ clearTimers = 0

AdvancedNext ==
    \/ \E d \in UiIds, b \in UiIds, sel \in Selections : OnBagPress(d, b, sel)
    \/ ConfirmAllUpdates
    \/ \E n \in Names : TickOffIngredient(n)
    \/ \E name \in DishNames : RemoveDish(name)
    \/ UndoDish

AdvancedSpec == AdvancedInit /\ [][AdvancedNext]_vars

\* The screen variant with the delayed clear, opened on freshStore.
TimerInit ==
    /\ dishesStack = freshStore
    /\ pendingUpdates = <<>>
    /\ clearTimers = 0
    /\ nextId = 4

TimerNext ==
    \/ \E d \in 1..MaxDishes, b \in 1..MaxQuantity, sel \in Selections :
          TimerBagPress(d, b, sel)
    \/ TimerConfirm
    \/ DelayedClear

TimerSpec == TimerInit /\ [][TimerNext]_vars

(***************************************************************************)
(* Properties.                                                             *)
(***************************************************************************)
AllBags(dishes) ==
    UNION {Range(dishes[d].prepBags) : d \in DOMAIN dishes}

BagPositions(dishes) ==
    UNION {{<<d, b>> : b \in DOMAIN dishes[d].prepBags} : d \in DOMAIN dishes}

\* Names with a staged add / a staged remove for a bag.
StagedAdds(updates, bagId) ==
    {e.ing : e \in {x \in Range(pendingOf(updates, bagId)) : x.toAdd}}

StagedRemoves(updates, bagId) ==
    {e.ing : e \in {x \in Range(pendingOf(updates, bagId)) : ~x.toAdd}}

\* The effective set: confirmed, plus the staged adds, minus the staged removes.
EffectiveNames(updates, bagId, confirmed) ==
    (Range(confirmed) \cup StagedAdds(updates, bagId)) \ StagedRemoves(updates, bagId)

\* The staged intent of a (bag, ingredient) pair.
Intent(updates, bagId, n) ==
    IF n \in StagedAdds(updates, bagId) THEN "add"
    ELSE IF n \in StagedRemoves(updates, bagId) THEN "remove"
    ELSE "none"

Min(a, b) == IF a < b THEN a ELSE b

\* C1: in every state, confirmUpdates(b, c, ings) calls the write-back
\* exactly once, with the bag id and one record per name of the effective
\* set, each the recipe's entry of that name or the sentinel when the recipe
\* has none; it leaves no pending intents for b and every other bag's
\* pending intents as they were.
C1_ConfirmContract ==
    \A b \in EngineBagIds, c \in ConfirmedLists, ings \in RecipeLists :
        LET calls == confirmUpdatesCalls(pendingUpdates, b, c, ings)
            list == calls[1].list
            eff == EffectiveNames(pendingUpdates, b, c)
            after == confirmUpdatesPending(pendingUpdates, b)
        IN  /\ Len(calls) = 1
            /\ calls[1].bagId = b
            /\ Len(list) = Cardinality(eff)
            /\ Range(NamesOf(list)) = eff
            /\ \A i \in DOMAIN list :
                  IF HasName(ings, list[i].name)
                      THEN \E j \in DOMAIN ings :
                              /\ ings[j] = list[i]
                              /\ \A k \in 1..(j - 1) : ings[k].name # list[i].name
                      ELSE list[i].weight = 0 /\ list[i].unit = "unitless"
            /\ b \notin DOMAIN after
            /\ DOMAIN after = DOMAIN pendingUpdates \ {b}
            /\ \A o \in DOMAIN after : after[o] = pendingUpdates[o]

\* A confirm has written a recipe record and a sentinel record to a bag and
\* cleared its pending intents while another bag still has staged intents.
C1_Witness ==
    \E bag \in AllBags(dishesStack) :
        /\ bag.addedIngredients = <<Ing("Pepper", 3, "kg"), Ing("Salt", 0, "unitless")>>
        /\ bag.id \notin DOMAIN pendingUpdates
        /\ DOMAIN pendingUpdates # {}

\* C2: every dish in the store has as many prep bags as its quantity, and
\* updateDish(name, q, ings) leaves every dish named name with q bags.
C2_BagsMatchQuantity ==
    /\ \A d \in DOMAIN dishesStack :
          Len(dishesStack[d].prepBags) = dishesStack[d].quantity
    /\ \A name \in DishNames, q \in 0..MaxQuantity, ings \in IngredientLists :
          LET new == updateDishResult(dishesStack, nextId, name, q, ings)
          IN  \A d \in DOMAIN new :
                  new[d].name = name => Len(new[d].prepBags) = q

\* A dish of quantity 2 whose second bag was generated by an updateDish
\* that also changed the ingredient list.
C2_Witness ==
    \E d \in DOMAIN dishesStack :
        /\ dishesStack[d].quantity = 2
        /\ Len(dishesStack[d].prepBags) = 2
        /\ dishesStack[d].prepBags[1].ingredients # dishesStack[d].prepBags[2].ingredients

\* C3: stagePending and clearPending leave the dish store, and so the
\* exhaustion result of every ingredient, unchanged.
C3_StagingNeverCommits ==
    [][\/ /\ dishesStack' = dishesStack
          /\ \A n \in Names :
                isIngredientExhausted(n, dishesStack')
                    = isIngredientExhausted(n, dishesStack)
       \/ ~ \/ \E b \in EngineBagIds, n \in Names, toAdd \in BOOLEAN :
                  UpdatePending(b, n, toAdd)
            \/ \E b \in EngineBagIds : ClearPending(b)]_vars

\* Salt is exhausted while a removal of Salt is staged for a bag, and Pepper
\* is not exhausted while an add of Pepper is staged.
C3_Witness ==
    /\ isIngredientExhausted("Salt", dishesStack)
    /\ ~isIngredientExhausted("Pepper", dishesStack)
    /\ \E b \in DOMAIN pendingUpdates :
          /\ "Salt" \in StagedRemoves(pendingUpdates, b)
          /\ "Pepper" \in StagedAdds(pendingUpdates, b)

\* C4: in every state, updateDish(name, q, ings) on a dish of n bags keeps
\* the first min(q, n) bags in order with their id, addedIngredients and
\* isComplete, and appends max(0, q - n) fresh bags with no progress; the
\* bags beyond q are dropped.
C4_UpdateDishBags ==
    \A name \in DishNames, q \in 0..MaxQuantity, ings \in IngredientLists :
        LET after == updateDishResult(dishesStack, nextId, name, q, ings)
        IN  /\ Len(after) = Len(dishesStack)
            /\ \A d \in DOMAIN dishesStack :
                  dishesStack[d].name = name =>
                      LET old == dishesStack[d].prepBags
                          new == after[d].prepBags
                          n == Len(old)
                      IN  /\ Len(new) = q
                          /\ \A k \in 1..Min(q, n) :
                                /\ new[k].id = old[k].id
                                /\ new[k].addedIngredients = old[k].addedIngredients
                                /\ new[k].isComplete = old[k].isComplete
                          /\ \A k \in (n + 1)..q :
                                /\ new[k].addedIngredients = <<>>
                                /\ new[k].isComplete = FALSE
                                /\ new[k].id \notin
                                      {bag.id : bag \in AllBags(dishesStack)}

\* The first dish was created with two bags (ids 2 and 3) and an updateDish
\* has cut it to its first bag, which keeps its progress.
C4_Witness ==
    /\ Len(dishesStack) = 1
    /\ dishesStack[1].id = 1
    /\ nextId = 4
    /\ Len(dishesStack[1].prepBags) = 1
    /\ dishesStack[1].prepBags[1].id = 2
    /\ dishesStack[1].prepBags[1].addedIngredients # <<>>

\* C5: every prep bag satisfies
\* isComplete = (addedIngredients.length = ingredients.length).
C5_IsCompleteDerived ==
    \A bag \in AllBags(dishesStack) :
        bag.isComplete = (Len(bag.addedIngredients) = Len(bag.ingredients))

\* C6: confirming a bag a second time, with no staging in between, with the
\* names the first confirm left in the bag and the same recipe, changes
\* neither the bag's addedIngredients and isComplete nor the pending set.
C6_ConfirmIdempotent ==
    \A pos \in BagPositions(dishesStack), c \in ConfirmedLists, ings \in RecipeLists :
        LET b == dishesStack[pos[1]].prepBags[pos[2]].id
            store1 == writeBackAll(dishesStack,
                         confirmUpdatesCalls(pendingUpdates, b, c, ings))
            pending1 == confirmUpdatesPending(pendingUpdates, b)
            bag1 == store1[pos[1]].prepBags[pos[2]]
            store2 == writeBackAll(store1,
                         confirmUpdatesCalls(pending1, b,
                                             NamesOf(bag1.addedIngredients), ings))
            pending2 == confirmUpdatesPending(pending1, b)
            bag2 == store2[pos[1]].prepBags[pos[2]]
        IN  /\ bag2.addedIngredients = bag1.addedIngredients
            /\ bag2.isComplete = bag1.isComplete
            /\ pending2 = pending1

\* A bag holds two confirmed records written by a confirm, its pending
\* intents are cleared, and the other bag has an add and a removal staged.
C6_Witness ==
    \E bag \in AllBags(dishesStack) :
        /\ bag.addedIngredients = <<Ing("Pepper", 2, "g"), Ing("Salt", 5, "g")>>
        /\ bag.isComplete
        /\ bag.id \notin DOMAIN pendingUpdates
        /\ \E o \in DOMAIN pendingUpdates :
              /\ StagedAdds(pendingUpdates, o) # {}
              /\ StagedRemoves(pendingUpdates, o) # {}

\* C7: computeEffectiveCount and getEffectiveCount return the same number,
\* the size of the effective set (or total minus it when showMissing), and
\* that size is the length of the list confirmUpdates writes back.
C7_EffectiveCountAgrees ==
    \A b \in EngineBagIds, c \in ConfirmedLists :
        LET size == Cardinality(EffectiveNames(pendingUpdates, b, c))
            pending == IF b \in DOMAIN pendingUpdates
                          THEN <<pendingUpdates[b].pending>>
                          ELSE <<>>
        IN  /\ \A total \in 0..Len(EngineIngredients), showMissing \in BOOLEAN :
                  /\ getEffectiveCount(pendingUpdates, b, c, total, showMissing)
                        = computeEffectiveCount(c, pending, total, showMissing)
                  /\ computeEffectiveCount(c, pending, total, showMissing)
                        = IF showMissing THEN total - size ELSE size
            /\ \A ings \in RecipeLists :
                  Len(confirmUpdatesCalls(pendingUpdates, b, c, ings)[1].list) = size

\* A bag with Salt confirmed has a removal of Salt and an add of Pepper
\* staged: the counts are computed from adds and removes together.
C7_Witness ==
    \E bag \in AllBags(dishesStack) :
        /\ HasName(bag.addedIngredients, "Salt")
        /\ ~HasName(bag.addedIngredients, "Pepper")
        /\ "Salt" \in StagedRemoves(pendingUpdates, bag.id)
        /\ "Pepper" \in StagedAdds(pendingUpdates, bag.id)

\* C8: stagePending(b, n, v) makes v the staged intent of (b, n) and leaves
\* the staged intent of every other pair unchanged; clearPending(b) leaves
\* no intent for b and the intents of the other bags unchanged.
C8_LastWriteWins ==
    [][/\ \A b \in EngineBagIds, n \in Names, v \in BOOLEAN :
            UpdatePending(b, n, v) =>
                /\ Intent(pendingUpdates', b, n) = (IF v THEN "add" ELSE "remove")
                /\ \A b2 \in EngineBagIds, n2 \in Names :
                      <<b2, n2>> # <<b, n>> =>
                          Intent(pendingUpdates', b2, n2) = Intent(pendingUpdates, b2, n2)
       /\ \A b \in EngineBagIds :
            ClearPending(b) =>
                \A b2 \in EngineBagIds, n2 \in Names :
                    Intent(pendingUpdates', b2, n2)
                        = IF b2 = b THEN "none" ELSE Intent(pendingUpdates, b2, n2)]_vars

\* Two ingredients of one bag carry different staged intents.
C8_Witness ==
    \E b \in DOMAIN pendingUpdates :
        /\ Intent(pendingUpdates, b, "Salt") = "remove"
        /\ Intent(pendingUpdates, b, "Pepper") = "add"
        /\ pendingUpdates[b].pending[1].ing = "Pepper"

\* C9: addDish(spec, q) appends one dish after the dishes already stored,
\* which stay as they were; the new dish has q prep bags, each with empty
\* addedIngredients, isComplete false, the dish's name and its ingredients.
C9_AddDishAppends ==
    [][\A name \in DishNames, ings \in IngredientLists, q \in 0..MaxQuantity :
        AddDish(name, ings, q) =>
            LET n == Len(dishesStack)
                dish == dishesStack'[n + 1]
            IN  /\ Len(dishesStack') = n + 1
                /\ SubSeq(dishesStack', 1, n) = dishesStack
                /\ dish.name = name
                /\ dish.ingredients = ings
                /\ Len(dish.prepBags) = q
                /\ \A k \in DOMAIN dish.prepBags :
                      /\ dish.prepBags[k].addedIngredients = <<>>
                      /\ dish.prepBags[k].isComplete = FALSE
                      /\ dish.prepBags[k].dishName = name
                      /\ dish.prepBags[k].ingredients = ings]_vars

\* A second dish has been added after a first one that is still stored, and
\* it holds a prep bag.
C9_Witness ==
    /\ Len(dishesStack) = 2
    /\ dishesStack[1].id < dishesStack[2].id
    /\ Len(dishesStack[2].prepBags) = 1
    /\ dishesStack[2].prepBags[1].addedIngredients = <<>>

WithoutIndex(seq, i) == SubSeq(seq, 1, i - 1) \o SubSeq(seq, i + 1, Len(seq))

\* Index of the dish added last among those stored: ids are handed out in
\* the order of the addDish calls.
NewestIndex(dishes) ==
    CHOOSE d \in DOMAIN dishes :
        \A e \in DOMAIN dishes : dishes[e].id <= dishes[d].id

\* C11: in every state undoDish removes exactly the dish added most
\* recently among those stored and keeps the others in their order; on an
\* empty store it changes nothing.
C11_UndoRemovesNewest ==
    IF dishesStack = <<>>
        THEN undoDishResult(dishesStack) = <<>>
        ELSE undoDishResult(dishesStack)
                = WithoutIndex(dishesStack, NewestIndex(dishesStack))

\* Lists updatePrepBag is checked with.
WriteLists == AddedLists \cup IngredientLists

\* C12: updatePrepBag(id, list) gives the bag with that id exactly list as
\* addedIngredients and isComplete = (Len(list) = Len(its ingredients)); it
\* changes no other bag's addedIngredients or isComplete, no bag's id or
\* ingredients, and no dish's name, quantity, ingredients or position.
C12_UpdatePrepBagFrame ==
    \A id \in BagIds, list \in WriteLists :
        LET new == updatePrepBagResult(dishesStack, id, list)
        IN  /\ DOMAIN new = DOMAIN dishesStack
            /\ \A d \in DOMAIN dishesStack :
                  /\ new[d].id = dishesStack[d].id
                  /\ new[d].name = dishesStack[d].name
                  /\ new[d].quantity = dishesStack[d].quantity
                  /\ new[d].ingredients = dishesStack[d].ingredients
                  /\ DOMAIN new[d].prepBags = DOMAIN dishesStack[d].prepBags
                  /\ \A b \in DOMAIN dishesStack[d].prepBags :
                        LET old == dishesStack[d].prepBags[b]
                            bag == new[d].prepBags[b]
                        IN  /\ bag.id = old.id
                            /\ bag.ingredients = old.ingredients
                            /\ IF old.id = id
                                  THEN /\ bag.addedIngredients = list
                                       /\ bag.isComplete
                                            = (Len(list) = Len(old.ingredients))
                                  ELSE /\ bag.addedIngredients = old.addedIngredients
                                       /\ bag.isComplete = old.isComplete

\* updatePrepBag has written one bag of a dish (complete: one record, one
\* ingredient) while the dish's other bag still has no records.
C12_Witness ==
    \E d \in DOMAIN dishesStack :
        \E b1, b2 \in DOMAIN dishesStack[d].prepBags :
            /\ dishesStack[d].prepBags[b1].addedIngredients = <<Ing("Pepper", 2, "g")>>
            /\ dishesStack[d].prepBags[b1].ingredients = <<Ing("Salt", 5, "g")>>
            /\ dishesStack[d].prepBags[b1].isComplete
            /\ dishesStack[d].prepBags[b2].addedIngredients = <<>>
            /\ ~dishesStack[d].prepBags[b2].isComplete

\* C13: tickOffIngredient(x) appends one record {x, 0, ""} to every bag that
\* requires x and has no record named x, and sets that bag's isComplete
\* from the new count; every other bag, and every dish field other than the
\* bags, stays as it was.
C13_TickOffContract ==
    \A x \in Names :
        LET new == tickOffIngredientResult(dishesStack, x)
        IN  /\ DOMAIN new = DOMAIN dishesStack
            /\ \A d \in DOMAIN dishesStack :
                  /\ [new[d] EXCEPT !.prepBags = <<>>]
                        = [dishesStack[d] EXCEPT !.prepBags = <<>>]
                  /\ DOMAIN new[d].prepBags = DOMAIN dishesStack[d].prepBags
                  /\ \A b \in DOMAIN dishesStack[d].prepBags :
                        LET old == dishesStack[d].prepBags[b]
                            bag == new[d].prepBags[b]
                        IN  IF /\ \E i \in DOMAIN old.ingredients :
                                      old.ingredients[i].name = x
                               /\ \A i \in DOMAIN old.addedIngredients :
                                      old.addedIngredients[i].name # x
                              THEN /\ bag.addedIngredients
                                        = old.addedIngredients \o <<Ing(x, 0, "")>>
                                   /\ bag.isComplete
                                        = (Len(bag.addedIngredients)
                                             = Len(old.ingredients))
                                   /\ [bag EXCEPT !.addedIngredients = <<>>,
                                                  !.isComplete = FALSE]
                                        = [old EXCEPT !.addedIngredients = <<>>,
                                                      !.isComplete = FALSE]
                              ELSE bag = old

\* A tick-off has put its placeholder record into a bag, completing it.
C13_Witness ==
    \E bag \in AllBags(dishesStack) :
        /\ bag.addedIngredients = <<Ing("Salt", 0, "")>>
        /\ bag.ingredients = <<Ing("Salt", 5, "g")>>
        /\ bag.isComplete

\* Every bag of every dish that requires x has a confirmed record named x.
AllRequiringConfirmed(x, dishes) ==
    \A d \in DOMAIN dishes :
        HasName(dishes[d].ingredients, x) =>
            \A b \in DOMAIN dishes[d].prepBags :
                HasName(dishes[d].prepBags[b].addedIngredients, x)

\* Some dish that requires x has a prep bag.
SomeBagRequires(x, dishes) ==
    \E d \in DOMAIN dishes :
        /\ HasName(dishes[d].ingredients, x)
        /\ dishes[d].prepBags # <<>>

\* C14 (as claimed): both exhaustion queries are true exactly when every bag
\* of every dish requiring x has a confirmed record named x.
C14_ExhaustedIffAllConfirmed ==
    \A x \in Names :
        /\ isIngredientExhausted(x, dishesStack) = AllRequiringConfirmed(x, dishesStack)
        /\ isIngredientExhaustedTabTwo(x, dishesStack)
              = AllRequiringConfirmed(x, dishesStack)

\* C14 (amended): both exhaustion queries are true exactly when some dish
\* requiring x has a prep bag and every bag of every dish requiring x has a
\* confirmed record named x.
C14_ExhaustedIffRequiredAndAllConfirmed ==
    \A x \in Names :
        /\ isIngredientExhausted(x, dishesStack)
              = (SomeBagRequires(x, dishesStack) /\ AllRequiringConfirmed(x, dishesStack))
        /\ isIngredientExhaustedTabTwo(x, dishesStack)
              = (SomeBagRequires(x, dishesStack) /\ AllRequiringConfirmed(x, dishesStack))

\* Salt is exhausted: the one dish requiring it has all its bags ticked off,
\* while a second dish does not require it.
C14_Witness ==
    /\ Len(dishesStack) = 2
    /\ isIngredientExhausted("Salt", dishesStack)
    /\ \E d \in DOMAIN dishesStack : ~HasName(dishesStack[d].ingredients, "Salt")

\* Reading a matrix column by column (column 0 rows 0..7, then column 1,
\* ...) and dropping the empty slots, over its first k cells.
RECURSIVE FlattenUpTo(_, _)
FlattenUpTo(matrix, k) ==
    IF k = 0 THEN <<>>
    ELSE LET rows == Len(matrix)
             cell == matrix[((k - 1) % rows) + 1][((k - 1) \div rows) + 1]
         IN  IF cell = Null
                 THEN FlattenUpTo(matrix, k - 1)
                 ELSE Append(FlattenUpTo(matrix, k - 1), cell)

FlattenColumnMajor(matrix) ==
    IF matrix = <<>> THEN <<>>
    ELSE FlattenUpTo(matrix, Len(matrix) * Len(matrix[1]))

\* C15: for the bag list of every stored dish, the matrix createMatrix
\* builds from it (in the store and in the advanced-mode screen), read
\* column by column without its empty slots, is the bag list itself.
C15_MatrixRoundTrip ==
    \A d \in DOMAIN dishesStack :
        /\ FlattenColumnMajor(createMatrix(dishesStack[d].prepBags, 8))
              = dishesStack[d].prepBags
        /\ FlattenColumnMajor(createMatrixView(dishesStack[d].prepBags, 8))
              = dishesStack[d].prepBags

\* A dish of 17 bags: its matrix has three columns, the last one holding a
\* single bag.
C15_Witness ==
    /\ Len(dishesStack) = 1
    /\ Len(dishesStack[1].prepBags) = 17
    /\ Len(dishesStack[1].matrix[1]) = 3
    /\ dishesStack[1].matrix[1][3] = dishesStack[1].prepBags[17]
    /\ dishesStack[1].matrix[2][3] = Null

\* C16 (as claimed): addDish of a dish with one ingredient and quantity 3
\* on the empty store leaves one dish with 3 bags, each with empty
\* addedIngredients, and a matrix of 3 rows and 1 column.
C16_ScenarioThreeRows ==
    [][\A ings \in IngredientLists :
        (Len(ings) = 1 /\ AddDishOfMany(ings, 3)) =>
            LET dish == dishesStack'[1]
            IN  /\ Len(dishesStack') = 1
                /\ Len(dish.prepBags) = 3
                /\ \A b \in DOMAIN dish.prepBags :
                      dish.prepBags[b].addedIngredients = <<>>
                /\ Len(dish.matrix) = 3
                /\ \A r \in DOMAIN dish.matrix : Len(dish.matrix[r]) = 1]_vars

\* C16 (amended): addDish of a dish with one ingredient and quantity 3 on
\* the empty store leaves one dish with 3 bags, each with empty
\* addedIngredients, and a matrix of 8 rows and 1 column whose first three
\* rows hold the bags in order and whose other rows are empty.
C16_ScenarioEightRows ==
    [][\A ings \in IngredientLists :
        (Len(ings) = 1 /\ AddDishOfMany(ings, 3)) =>
            LET dish == dishesStack'[1]
            IN  /\ Len(dishesStack') = 1
                /\ Len(dish.prepBags) = 3
                /\ \A b \in DOMAIN dish.prepBags :
                      dish.prepBags[b].addedIngredients = <<>>
                /\ Len(dish.matrix) = 8
                /\ \A r \in DOMAIN dish.matrix :
                      /\ Len(dish.matrix[r]) = 1
                      /\ dish.matrix[r][1]
                            = IF r <= 3 THEN dish.prepBags[r] ELSE Null]_vars

\* The scenario's dish has just been added: one ingredient, three untouched
\* bags with the ids that follow the dish's.
C16_Witness ==
    /\ Len(dishesStack) = 1
    /\ nextId = 5
    /\ dishesStack[1].ingredients = <<Ing("Salt", 5, "g")>>
    /\ Len(dishesStack[1].prepBags) = 3
    /\ \A b \in DOMAIN dishesStack[1].prepBags :
          /\ dishesStack[1].prepBags[b].addedIngredients = <<>>
          /\ dishesStack[1].prepBags[b].id = dishesStack[1].id + b

\* C17: with a bag id that no stored bag has, updatePrepBag leaves the store
\* as it is; with a name that no stored dish has, updateDish and removeDish
\* leave the store as it is (and updateDish generates no id).
C17_MissingTargetNoOp ==
    /\ \A id \in BagIds :
          (\A bag \in AllBags(dishesStack) : bag.id # id) =>
              \A list \in WriteLists :
                  updatePrepBagResult(dishesStack, id, list) = dishesStack
    /\ \A name \in DishNames :
          (\A d \in DOMAIN dishesStack : dishesStack[d].name # name) =>
              /\ removeDishResult(dishesStack, name) = dishesStack
              /\ \A q \in 0..MaxQuantity, ings \in IngredientLists :
                    /\ updateDishResult(dishesStack, nextId, name, q, ings)
                          = dishesStack
                    /\ idsUsedUpTo(dishesStack, Len(dishesStack), name, q) = 0

\* The store holds a Soup with a bag that has a record, no Stew, and some
\* id of the generator's range is no bag's id.
C17_Witness ==
    /\ dishesStack # <<>>
    /\ \A d \in DOMAIN dishesStack : dishesStack[d].name = "Soup"
    /\ \E bag \in AllBags(dishesStack) : bag.addedIngredients # <<>>
    /\ \E id \in BagIds : \A bag \in AllBags(dishesStack) : bag.id # id

RECURSIVE SumTotals(_)
SumTotals(acc) ==
    IF acc = <<>> THEN 0
    ELSE acc[Len(acc)].totalWeight + SumTotals(SubSeq(acc, 1, Len(acc) - 1))

RECURSIVE SumWeights(_)
SumWeights(ingredients) ==
    IF ingredients = <<>> THEN 0
    ELSE ingredients[Len(ingredients)].weight
            + SumWeights(SubSeq(ingredients, 1, Len(ingredients) - 1))

\* The sum over the dishes and their ingredients of weight x remaining bags.
RECURSIVE SumNeeded(_)
SumNeeded(dishes) ==
    IF dishes = <<>> THEN 0
    ELSE SumWeights(dishes[Len(dishes)].ingredients) * remainingCount(dishes[Len(dishes)])
            + SumNeeded(SubSeq(dishes, 1, Len(dishes) - 1))

\* C18: every ingredient of every dish adds weight x remaining bags to
\* exactly one bucket, the first bucket with a key of similarity >= 0.8 to
\* its name or else a new bucket keyed by the name, and the bucket totals
\* add up to the sum of all these contributions.
C18_AggregationConserves ==
    /\ SumTotals(aggregatedIngredientsRemaining(dishesStack)) = SumNeeded(dishesStack)
    /\ \A d \in DOMAIN dishesStack :
          \A n \in DOMAIN dishesStack[d].ingredients :
              LET start == aggregateUpTo(dishesStack, d - 1)
                  before == aggregateDish(start, dishesStack[d], n - 1)
                  after == aggregateDish(start, dishesStack[d], n)
                  ing == dishesStack[d].ingredients[n]
                  w == ing.weight * remainingCount(dishesStack[d])
                  similar == {i \in DOMAIN before :
                                similarityAtLeast(before[i].key, ing.name, 8, 10)}
              IN  IF similar # {}
                      THEN LET first == CHOOSE i \in similar :
                                            \A j \in similar : i <= j
                           IN  after = [before EXCEPT
                                          ![first].totalWeight = @ + w]
                      ELSE after = Append(before,
                                          [key |-> ing.name,
                                           totalWeight |-> w,
                                           unit |-> ing.unit])

\* The groups groupedPrepBags lists under a dish name.
GroupsOf(dishes, name) ==
    LET map == groupedPrepBags(dishes)
    IN  IF \E e \in DOMAIN map : map[e].dishName = name
            THEN map[CHOOSE e \in DOMAIN map : map[e].dishName = name].prepBags
            ELSE <<>>

\* The groups that list bag number k.
GroupsWithBag(groups, k) ==
    {g \in DOMAIN groups : \E i \in DOMAIN groups[g].bags : groups[g].bags[i] = k}

\* C19: every bag of a dish is listed in exactly one group, once, and two
\* bags of the dish whose addedIngredients hold the same names are listed
\* in the same group, whatever the order of the names.
C19_GroupingPartition ==
    \A d \in DOMAIN dishesStack :
        LET dish == dishesStack[d]
            groups == GroupsOf(dishesStack, dish.name)
        IN  /\ \A k \in DOMAIN dish.prepBags :
                  /\ Cardinality(GroupsWithBag(groups, k)) = 1
                  /\ \A g \in GroupsWithBag(groups, k) :
                        Cardinality({i \in DOMAIN groups[g].bags :
                                        groups[g].bags[i] = k}) = 1
            /\ \A k1, k2 \in DOMAIN dish.prepBags :
                  Range(NamesOf(dish.prepBags[k1].addedIngredients))
                        = Range(NamesOf(dish.prepBags[k2].addedIngredients))
                    => GroupsWithBag(groups, k1) = GroupsWithBag(groups, k2)

\* C20: the bags of a dish that have no addedIngredients are all listed in
\* one single group, whose label is the empty sentinel.
C20_EmptyBagsOneGroup ==
    \A d \in DOMAIN dishesStack :
        LET dish == dishesStack[d]
            groups == GroupsOf(dishesStack, dish.name)
            empty == {k \in DOMAIN dish.prepBags :
                        dish.prepBags[k].addedIngredients = <<>>}
        IN  empty # {} =>
                \E g \in DOMAIN groups :
                    /\ groups[g].ingredients = <<"** EMPTY **">>
                    /\ \A k \in empty : GroupsWithBag(groups, k) = {g}

\* The edit distance by its recurrence on the strings' tails.
RECURSIVE EditDistance(_, _)
EditDistance(a, b) ==
    IF a = <<>> THEN Len(b)
    ELSE IF b = <<>> THEN Len(a)
    ELSE LET viaDelete == EditDistance(Tail(a), b) + 1
             viaInsert == EditDistance(a, Tail(b)) + 1
             viaReplace == EditDistance(Tail(a), Tail(b))
                              + (IF Head(a) = Head(b) THEN 0 ELSE 1)
         IN  Min(Min(viaDelete, viaInsert), viaReplace)

\* The ingredient names held by the store.
StoredNames(dishes) ==
    UNION {Range(NamesOf(dishes[d].ingredients)) : d \in DOMAIN dishes}

\* C21: for the names a and b of the first and the last stored dish (every
\* ordered pair of names, and every name with itself, is such a pair in
\* some state), similarity(a, b) is
\* 1 - editDistance(lower(a), lower(b)) / max(len a, len b) and lies in
\* [0, 1]; it is 1 for two empty names, 0 when exactly one is empty, 1 when
\* the names differ only in letter case (Flour, flour), and below the 0.8
\* threshold for Flour and Sugar.
C21_SimilarityValue ==
    dishesStack # <<>> =>
        LET a == dishesStack[1].ingredients[1].name
            b == dishesStack[Len(dishesStack)].ingredients[1].name
            sim == similarity(a, b)
            maxLen == IF Len(a) > Len(b) THEN Len(a) ELSE Len(b)
            dist == EditDistance(toLowerCase(a), toLowerCase(b))
        IN  /\ sim.den > 0
            /\ 0 <= sim.num /\ sim.num <= sim.den
            /\ (a = <<>> /\ b = <<>>) => sim.num = sim.den
            /\ ((a = <<>>) # (b = <<>>)) => sim.num = 0
            /\ maxLen > 0 => sim.num * maxLen = sim.den * (maxLen - dist)
            /\ toLowerCase(a) = toLowerCase(b) => sim.num = sim.den
            /\ similarityAtLeast(a, b, 8, 10) = (10 * sim.num >= 8 * sim.den)
            /\ (a = Flour /\ b = FlourLower) => sim.num = sim.den
            /\ (a = Flour /\ b = Sugar) => 10 * sim.num < 8 * sim.den

\* The store holds the names Flour and flour, which differ only in case.
C21_Witness ==
    /\ Len(dishesStack) = 2
    /\ dishesStack[1].ingredients[1].name = Flour
    /\ dishesStack[2].ingredients[1].name = FlourLower

\* What confirmAllUpdates leaves behind in the current state.
ConfirmedAllStore ==
    LET bags == bagsInOrder(dishesStack, Len(dishesStack))
    IN  confirmAllStore(dishesStack, pendingUpdates, bags, Len(bags))

ConfirmedAllPending ==
    LET bags == bagsInOrder(dishesStack, Len(dishesStack))
    IN  confirmAllPending(pendingUpdates, pendingUpdates, bags, Len(bags))

\* Every bag that has a pending record is a bag of the store.
PendingBagsPresent ==
    \A id \in DOMAIN pendingUpdates : \E bag \in AllBags(dishesStack) : bag.id = id

\* Every confirmed record is the bag's own record of that name, as a
\* confirm of bag presses writes it.
ConfirmedFromRecipe ==
    \A bag \in AllBags(dishesStack) : \A i \in DOMAIN bag.addedIngredients :
        /\ HasName(bag.ingredients, bag.addedIngredients[i].name)
        /\ bag.addedIngredients[i]
              = FindByName(bag.ingredients, bag.addedIngredients[i].name)

\* C22: in every state where the staged intents belong to bags of the store
\* and the confirmed records came from confirmed bag presses,
\* confirmAllUpdates leaves every bag with its confirmed names plus its
\* staged adds minus its staged removes, and leaves no staged intent.
C22_ConfirmAllCommitsAll ==
    (PendingBagsPresent /\ ConfirmedFromRecipe) =>
        /\ \A pos \in BagPositions(dishesStack) :
              LET bag == dishesStack[pos[1]].prepBags[pos[2]]
                  after == ConfirmedAllStore[pos[1]].prepBags[pos[2]]
              IN  Range(NamesOf(after.addedIngredients))
                      = EffectiveNames(pendingUpdates, bag.id,
                                       NamesOf(bag.addedIngredients))
        /\ stagedCount(ConfirmedAllPending) = 0

\* C23: in every state no bag's addedIngredients holds the sentinel record
\* {weight: 0, unit: "unitless"}.
C23_NoSentinel ==
    \A bag \in AllBags(dishesStack) : \A i \in DOMAIN bag.addedIngredients :
        ~(/\ bag.addedIngredients[i].weight = 0
          /\ bag.addedIngredients[i].unit = "unitless")

\* C24: in every state each dish's stored matrix is the column-major layout
\* of its current bags: eight rows, ceil(len(prepBags)/8) columns, cell
\* (row, col) the current bag prepBags[col*8 + row] or the empty marker.
C24_StoredMatrixCurrent ==
    \A d \in DOMAIN dishesStack :
        dishesStack[d].matrix = createMatrix(dishesStack[d].prepBags, 8)

\* C25: in every state reached through the dish screens every dish has a
\* quantity above 0 and at least one prep bag.
C25_QuantityPositive ==
    \A d \in DOMAIN dishesStack :
        /\ dishesStack[d].quantity > 0
        /\ Len(dishesStack[d].prepBags) >= 1

\* C26: in every state each bag's confirmed names are pairwise distinct and
\* are names of the bag's own ingredient list, so the confirmed count lies
\* in 0..required count, and the effective count shown for the bag lies in
\* 0..total.
C26_ConfirmedWithinRequired ==
    \A bag \in AllBags(dishesStack) :
        LET confirmed == NamesOf(bag.addedIngredients)
            total == Len(bag.ingredients)
            shown == getEffectiveCount(pendingUpdates, bag.id, confirmed, total,
                                       showMissingState)
        IN  /\ \A i, j \in DOMAIN confirmed : confirmed[i] = confirmed[j] => i = j
            /\ Range(confirmed) \subseteq Range(NamesOf(bag.ingredients))
            /\ Len(confirmed) <= total
            /\ 0 <= shown /\ shown <= total

\* C27: in every state every bag id that has staged intents in the pending
\* set is the id of a bag of the store.
C27_PendingBagsInStore ==
    \A id \in DOMAIN pendingUpdates :
        pendingUpdates[id].pending # <<>> =>
            \E bag \in AllBags(dishesStack) : bag.id = id

\* C28: in every state a bag is marked complete exactly when the set of its
\* confirmed names equals the set of its required names.
C28_CompleteIffAllRequired ==
    \A bag \in AllBags(dishesStack) :
        bag.isComplete
            = (Range(NamesOf(bag.addedIngredients)) = Range(NamesOf(bag.ingredients)))

\* Some dish with at least one prep bag lists x among its ingredients.
ListedWithBag(x) ==
    \E d \in DOMAIN dishesStack :
        /\ dishesStack[d].prepBags # <<>>
        /\ HasName(dishesStack[d].ingredients, x)

\* C29: in every state where some dish with a prep bag lists x, the store
\* tickOffIngredient(x) leaves makes the exhaustion query for x true, and a
\* second tickOffIngredient(x) leaves that store as it is.
C29_TickOffExhausts ==
    \A x \in Names :
        ListedWithBag(x) =>
            LET after == tickOffIngredientResult(dishesStack, x)
            IN  /\ isIngredientExhausted(x, after)
                /\ tickOffIngredientResult(after, x) = after

\* Every staged intent is reflected in its bag: a staged add is of a name
\* the bag has confirmed, a staged remove of a name it has not.
IntentsApplied ==
    \A id \in DOMAIN pendingUpdates :
        \A i \in DOMAIN pendingUpdates[id].pending :
            \E bag \in AllBags(dishesStack) :
                /\ bag.id = id
                /\ pendingUpdates[id].pending[i].toAdd
                      = HasName(bag.addedIngredients, pendingUpdates[id].pending[i].ing)

\* C30: whenever the delayed clear runs, every staged intent it drops has
\* been applied to its bag's confirmed ingredients by a confirm.
C30_NoIntentDropped ==
    [][(clearTimers' < clearTimers) => IntentsApplied]_vars

====
